---- MODULE Spec2Model ----
(***************************************************************************)
(* A model of src/format/format.ts: formatMessages and its helpers.        *)
(*                                                                         *)
(* Strings are TLA+ strings; a text built by a template literal or by      *)
(* join() is the sequence of its pieces (literal pieces and interpolated   *)
(* values), so that what was interpolated where stays visible.  A file     *)
(* path is the sequence of its segments.  A message object is known by its *)
(* reference: its index in the object heap, which is the caller's array as *)
(* it was passed.  Arrays hold references.                                 *)
(***************************************************************************)
EXTENDS Integers, Sequences, FiniteSets, TLC

VARIABLES
    colorEnabled,   \* colorette's options.enabled, process-wide
    messages,       \* the caller's array of messages
    call,           \* the arguments of the latest formatMessages call
    stderr,         \* what the latest call wrote, one element per write()
    threw,          \* whether the latest call ended by an exception
    suggestArg,     \* formatDidYouMean alone: the message's suggest list
    didYouMean      \* formatDidYouMean alone: the text it returned

vars == <<colorEnabled, messages, call, stderr, threw, suggestArg, didYouMean>>

----------------------------------------------------------------------------
(* Bounds *)

\* longest list of messages the validator reports
MaxMessages == 3
\* largest maxMessages option
MaxMax == 3
\* longest suggest list given to formatDidYouMean alone
MaxSuggest == 7

(* Program constants *)

MAX_SUGGEST == 5

----------------------------------------------------------------------------
(* Small helpers *)

Max(a, b) == IF a >= b THEN a ELSE b

Min(a, b) == IF a <= b THEN a ELSE b

RECURSIVE MaxOfSeq(_)
\* Math.max(...xs); xs is never empty here (a message has a location)
MaxOfSeq(xs) ==
    IF Len(xs) = 1 THEN xs[1] ELSE Max(xs[1], MaxOfSeq(Tail(xs)))

RECURSIVE Spaces(_)
Spaces(n) == IF n <= 0 THEN "" ELSE " " \o Spaces(n - 1)

\* String.prototype.padEnd: pads with spaces up to n, never cuts
PadEnd(s, n) == s \o Spaces(n - Len(s))

\* Array.prototype.slice(0, end)
Slice(arr, end) ==
    LET n == Len(arr)
        e == IF end < 0 THEN Max(n + end, 0) ELSE Min(end, n)
    IN  SubSeq(arr, 1, e)

RECURSIVE Join(_, _)
\* Array.prototype.join as the sequence of its pieces
Join(items, sep) ==
    IF Len(items) = 0 THEN <<>>
    ELSE IF Len(items) = 1 THEN <<items[1]>>
    ELSE <<items[1], sep>> \o Join(Tail(items), sep)

RECURSIVE CommonPrefix(_, _)
CommonPrefix(p, q) ==
    IF Len(p) = 0 \/ Len(q) = 0 \/ p[1] # q[1] THEN 0
    ELSE 1 + CommonPrefix(Tail(p), Tail(q))

\* path.relative(from, to) on segment sequences
Relative(from, to) ==
    LET c == CommonPrefix(from, to)
    IN  [i \in 1..(Len(from) - c) |-> ".."] \o SubSeq(to, c + 1, Len(to))

----------------------------------------------------------------------------
(* The data the validator hands over *)

Cwd == <<"proj">>

FileA == <<"proj", "a.yaml">>
FileB == <<"proj", "api", "b.yaml">>

NoPointer == ""
BadPointer == "#/dangling"

NoLocation == [absoluteRef |-> <<>>, pointer |-> NoPointer,
               resolved |-> FALSE, line |-> 0, col |-> 0]

\* A location the validator reports: a pointer into a document, not yet
\* resolved; line and col are where the pointer lies in that document.
Loc(file, pointer, line, col) ==
    [absoluteRef |-> file, pointer |-> pointer,
     resolved |-> FALSE, line |-> line, col |-> col]

Msg(sev, ign, rule, text, locs, sugg, from) ==
    [severity |-> sev, ignored |-> ign, ruleId |-> rule, message |-> text,
     location |-> locs, suggest |-> sugg, from |-> from]

Severities == {"error", "warn"}

\* Three shapes of message: one location and no suggestion; a primary and a
\* longer secondary location in another file, one suggestion and a from; a
\* location in another file with more suggestions than MAX_SUGGEST.
ShapeA(sev, ign) ==
    Msg(sev, ign, "no-foo", "bad foo",
        <<Loc(FileA, "#/info", 2, 3)>>, <<>>, NoLocation)

ShapeB(sev, ign) ==
    Msg(sev, ign, "no-unused-components", "unused",
        <<Loc(FileA, "#/paths", 10, 1), Loc(FileB, "#/x", 100, 20)>>,
        <<"get">>, Loc(FileB, "#/ref", 7, 7))

ShapeC(sev, ign) ==
    Msg(sev, ign, "operation-id", "bad id",
        <<Loc(FileB, NoPointer, 5, 12)>>,
        <<"s1", "s2", "s3", "s4", "s5", "s6">>, NoLocation)

\* A message whose primary location the normalizer cannot resolve
ShapeBad(sev) ==
    Msg(sev, FALSE, "no-bar", "bad bar",
        <<Loc(FileA, BadPointer, 1, 1)>>, <<>>, NoLocation)

\* what the validator may report: both severities in one file, an error in
\* another file, and that error ignored
Reported ==
    {ShapeA(s, FALSE) : s \in Severities}
        \cup {ShapeB(s, FALSE) : s \in Severities}
        \cup {ShapeC("error", FALSE), ShapeC("error", TRUE)}

ReportedBad == {ShapeBad(s) : s \in Severities}

Formats == {"codeframe", "stylish"}

\* opts.color: a boolean, or left out
ColorOpts == {"omitted", "true", "false"}

Options ==
    [maxMessages : (-1)..MaxMax, format : Formats, color : ColorOpts]

----------------------------------------------------------------------------
(* The collaborators of ./codeframes, as the interface describes them *)

\* whether getLineColLocation fails on this location
GetLineColThrows(location) == location.pointer = BadPointer

\* getLineColLocation: the location with its start line and column resolved
getLineColLocation(location) == [location EXCEPT !.resolved = TRUE]

\* getCodeframe: the excerpt around a resolved position, colored or not
getCodeframe(loc, color) ==
    [excerptLine |-> loc.line, excerptCol |-> loc.col, colored |-> color]

----------------------------------------------------------------------------
(* Severity ordering and the array operations of formatMessages *)

\* a variant that ranks warn before error
severityToNumberSwapped(severity) == IF severity = "error" THEN 2 ELSE 1

severityToNumber(severity) == IF severity = "error" THEN 1 ELSE 2

\* the compare function given to sort
Compare(a, b) == severityToNumber(a.severity) - severityToNumber(b.severity)

RECURSIVE InsertSorted(_, _, _)
\* r goes before the first element that compares greater than it
InsertSorted(sorted, r, objs) ==
    IF Len(sorted) = 0 THEN <<r>>
    ELSE IF Compare(objs[sorted[1]], objs[r]) > 0 THEN <<r>> \o sorted
    ELSE <<sorted[1]>> \o InsertSorted(Tail(sorted), r, objs)

RECURSIVE SortRefs(_, _, _)
\* Array.prototype.sort (stable since ES2019) on an array of references
SortRefs(arr, done, objs) ==
    IF Len(arr) = 0 THEN done
    ELSE SortRefs(Tail(arr), InsertSorted(done, arr[1], objs), objs)

\* The parameter `messages` on entry: it is the caller's array itself.
\* objs: the message objects by reference; caller, local: the caller's array
\* and the one the parameter is bound to; aliased: whether they are one array.
ParamBinding(msgs) ==
    [objs |-> msgs,
     caller |-> [i \in 1..Len(msgs) |-> i],
     local |-> [i \in 1..Len(msgs) |-> i],
     aliased |-> TRUE]

\* a variant of the filter's test that keeps ignored messages
IsVisibleAlways(m) == TRUE

IsVisible(m) == ~m.ignored

\* a variant that removes the ignored messages from the array itself
ArrayFilterInPlace(h) ==
    LET kept == SelectSeq(h.local, LAMBDA r : ~h.objs[r].ignored)
    IN  [h EXCEPT !.local = kept,
                  !.caller = IF h.aliased THEN kept ELSE h.caller]

\* messages = messages.filter((m) => !m.ignored): a new array
ArrayFilter(h) ==
    [h EXCEPT !.local = SelectSeq(h.local, LAMBDA r : IsVisible(h.objs[r])),
              !.aliased = FALSE]

\* .sort(...): sorts the array it is called on, in place
ArraySort(h) ==
    LET s == SortRefs(h.local, <<>>, h.objs)
    IN  [h EXCEPT !.local = s,
                  !.caller = IF h.aliased THEN s ELSE h.caller]

\* .slice(0, maxMessages): a new array
ArraySlice(h, maxMessages) ==
    [h EXCEPT !.local = Slice(h.local, maxMessages), !.aliased = FALSE]

----------------------------------------------------------------------------
(* Rendering *)

SEVERITY_NAMES(severity) == IF severity = "warn" THEN "Warning" ELSE "Error"

COLORS(severity) == IF severity = "warn" THEN "yellow" ELSE "red"

BG_COLORS(severity) == IF severity = "warn" THEN "bgYellow" ELSE "bgRed"

\* `${start.line}:${start.col}`
PositionString(loc) == ToString(loc.line) \o ":" \o ToString(loc.col)

\* a variant that lists every suggestion
formatDidYouMeanUncapped(suggest) ==
    IF Len(suggest) = 0 THEN <<>>
    ELSE IF Len(suggest) = 1
         THEN <<"Did you mean: ", suggest[1], " ?\n\n">>
    ELSE <<"Did you mean:\n  - ">> \o Join(suggest, "\n  - ") \o <<"\n\n">>

formatDidYouMean(suggest) ==
    IF Len(suggest) = 0 THEN <<>>
    ELSE IF Len(suggest) = 1
         THEN <<"Did you mean: ", suggest[1], " ?\n\n">>
    ELSE <<"Did you mean:\n  - ">>
            \o Join(Slice(suggest, MAX_SUGGEST), "\n  - ")
            \o <<"\n\n">>

formatFrom(cwd, location) ==
    IF location = NoLocation THEN <<>>
    ELSE LET relativePath == Relative(cwd, location.absoluteRef)
             loc == getLineColLocation(location)
         IN  <<"referenced from ", relativePath, ":", ToString(loc.line), ":",
               ToString(loc.col), "\n\n">>

\* whether fullFormatMessage ends by an exception of the normalizer
FullFormatThrows(message) ==
    \/ GetLineColThrows(message.location[1])
    \/ message.from # NoLocation /\ GetLineColThrows(message.from)

\* the text of one message in codeframe format, as its parts in order
fullFormatMessage(message, idx, cwd, color) ==
    LET location == message.location[1]
        relativePath == Relative(cwd, location.absoluteRef)
        loc == getLineColLocation(location)
    IN  [index |-> idx + 1,
         bgColor |-> BG_COLORS(message.severity),
         fileWithLoc |-> <<relativePath, ":", ToString(loc.line), ":",
                           ToString(loc.col)>>,
         atPointer |-> IF location.pointer # NoPointer
                       THEN <<"at ", location.pointer>> ELSE <<>>,
         message |-> message.message,
         didYouMean |-> formatDidYouMean(message.suggest),
         codeframe |-> getCodeframe(loc, color),
         from |-> formatFrom(cwd, message.from),
         severityName |-> SEVERITY_NAMES(message.severity),
         ruleId |-> message.ruleId]

\* one line of stylish format, as its fields in order
shortFormatMessage(message, locationPad, ruleIdPad) ==
    LET start == message.location[1]
    IN  [position |-> PadEnd(PositionString(start), locationPad + 2),
         color |-> COLORS(message.severity),
         ruleId |-> PadEnd(message.ruleId, ruleIdPad),
         message |-> message.message]

----------------------------------------------------------------------------
(* groupByFiles *)

NewGroup == [fileMessages |-> <<>>, ruleIdPad |-> 0, locationPad |-> 0]

NoGroups == [objs |-> <<>>, order |-> <<>>, groups |-> <<>>, threw |-> FALSE]

\* whether mapping the message's locations ends by an exception
MapThrows(message) ==
    \E i \in 1..Len(message.location) : GetLineColThrows(message.location[i])

\* { ...message, location: message.location.map(getLineColLocation) }:
\* a new object; the heap of message objects is left as it was
MapMessage(objs, ref) ==
    [mapped |-> [objs[ref] EXCEPT !.location =
                    [i \in 1..Len(@) |-> getLineColLocation(@[i])]],
     objs |-> objs]

\* a variant that keeps the length of the latest ruleId, not the largest
RuleIdPadLast(message, ruleIdPad) == Len(message.ruleId)

\* Math.max(message.ruleId.length, fileGroups[absoluteRef].ruleIdPad)
RuleIdPad(message, ruleIdPad) == Max(Len(message.ruleId), ruleIdPad)

\* Math.max(Math.max(...mappedMessage.location.map(...length)), locationPad)
LocationPad(mappedMessage, locationPad) ==
    Max(MaxOfSeq([i \in 1..Len(mappedMessage.location) |->
                    Len(PositionString(mappedMessage.location[i]))]),
        locationPad)

\* a variant that groups under the file of the message's last location
GroupKeyLast(message) == message.location[Len(message.location)].absoluteRef

\* the key a message is grouped under
GroupKey(message) == message.location[1].absoluteRef

\* one turn of the loop over messages
GroupStep(acc, ref) ==
    LET message == acc.objs[ref]
        absoluteRef == GroupKey(message)
        known == absoluteRef \in DOMAIN acc.groups
        group == IF known THEN acc.groups[absoluteRef] ELSE NewGroup
        mm == MapMessage(acc.objs, ref)
        grown == [fileMessages |->
                      Append(group.fileMessages,
                             [ref |-> ref, message |-> mm.mapped]),
                  ruleIdPad |-> RuleIdPad(message, group.ruleIdPad),
                  locationPad |-> LocationPad(mm.mapped, group.locationPad)]
    IN  IF MapThrows(message) THEN [acc EXCEPT !.threw = TRUE]
        ELSE [objs |-> mm.objs,
              \* a new key goes last: the files are paths, not array indices
              order |-> IF known THEN acc.order
                        ELSE Append(acc.order, absoluteRef),
              groups |-> [f \in DOMAIN acc.groups \cup {absoluteRef} |->
                            IF f = absoluteRef THEN grown ELSE acc.groups[f]],
              threw |-> FALSE]

RECURSIVE GroupLoop(_, _)
GroupLoop(acc, refs) ==
    IF Len(refs) = 0 \/ acc.threw THEN acc
    ELSE GroupLoop(GroupStep(acc, refs[1]), Tail(refs))

groupByFiles(objs, refs) == GroupLoop([NoGroups EXCEPT !.objs = objs], refs)

----------------------------------------------------------------------------
(* formatMessages *)

\* a variant that keeps the ambient flag whatever opts gives
ResolveColorAmbient(opts, enabled) == enabled

\* color = colorOptions.enabled unless opts gives one
ResolveColor(opts, enabled) ==
    IF opts.color = "omitted" THEN enabled ELSE opts.color = "true"

\* a variant without the early return
EarlyReturnNever(totalMessages) == FALSE

\* if (!totalMessages) return
EarlyReturn(totalMessages) == totalMessages = 0

RECURSIVE WriteFull(_, _, _, _, _)
\* the codeframe loop from message i on: what it writes, and whether it
\* ends by an exception
WriteFull(objs, refs, i, cwd, color) ==
    IF i >= Len(refs) THEN [out |-> <<>>, threw |-> FALSE]
    ELSE LET message == objs[refs[i + 1]]
         IN  IF FullFormatThrows(message) THEN [out |-> <<>>, threw |-> TRUE]
             ELSE LET rest == WriteFull(objs, refs, i + 1, cwd, color)
                  IN  [out |-> <<[kind |-> "full", ref |-> refs[i + 1],
                                  text |-> fullFormatMessage(message, i, cwd,
                                                             color)]>>
                                  \o rest.out,
                       threw |-> rest.threw]

\* the writes for one file of the stylish loop
WriteFile(cwd, file, group) ==
    <<[kind |-> "file", file |-> Relative(cwd, file)]>>
        \o [i \in 1..Len(group.fileMessages) |->
              [kind |-> "short", ref |-> group.fileMessages[i].ref,
               text |-> shortFormatMessage(group.fileMessages[i].message,
                                           group.locationPad,
                                           group.ruleIdPad)]]
        \o <<[kind |-> "blank"]>>

RECURSIVE WriteGroups(_, _, _)
\* the stylish loop over Object.entries(groupedByFile)
WriteGroups(cwd, order, groups) ==
    IF Len(order) = 0 THEN <<>>
    ELSE WriteFile(cwd, order[1], groups[order[1]])
            \o WriteGroups(cwd, Tail(order), groups)

\* a variant that compares the unfiltered total with maxMessages
HiddenNoticeUnfiltered(totalMessages, ignoredMessages, maxMessages) ==
    IF totalMessages > maxMessages
    THEN <<[kind |-> "hidden", count |-> totalMessages - maxMessages]>>
    ELSE <<>>

\* the truncation notice, if due
HiddenNotice(totalMessages, ignoredMessages, maxMessages) ==
    IF totalMessages - ignoredMessages > maxMessages
    THEN <<[kind |-> "hidden", count |-> totalMessages - maxMessages]>>
    ELSE <<>>

\* the caller's array as the heap holds it
Deref(objs, refs) == [i \in 1..Len(refs) |-> objs[refs[i]]]

\* One call: the color flag, the caller's array, the writes and whether the
\* call ended by an exception, all as they are when the call is over.
formatMessages(msgs, opts, enabled) ==
    LET color == ResolveColor(opts, enabled)
        h0 == ParamBinding(msgs)
        totalMessages == Len(h0.local)
        h1 == ArrayFilter(h0)
        ignoredMessages == totalMessages - Len(h1.local)
        h2 == ArraySlice(ArraySort(h1), opts.maxMessages)
        full == WriteFull(h2.objs, h2.local, 0, Cwd, color)
        grouped == groupByFiles(h2.objs, h2.local)
        notice == HiddenNotice(totalMessages, ignoredMessages,
                               opts.maxMessages)
    IN  IF EarlyReturn(totalMessages)
        THEN [enabled |-> color, caller |-> Deref(h2.objs, h2.caller),
              stderr |-> <<>>, threw |-> FALSE]
        ELSE IF opts.format = "codeframe"
        THEN [enabled |-> color, caller |-> Deref(h2.objs, h2.caller),
              stderr |-> IF full.threw THEN full.out ELSE full.out \o notice,
              threw |-> full.threw]
        ELSE [enabled |-> color, caller |-> Deref(grouped.objs, h2.caller),
              stderr |-> IF grouped.threw THEN <<>>
                         ELSE WriteGroups(Cwd, grouped.order, grouped.groups)
                                 \o notice,
              threw |-> grouped.threw]

----------------------------------------------------------------------------
(* The state machine *)

NoCall == [made |-> FALSE, messages |-> <<>>, maxMessages |-> 0,
           format |-> "codeframe", color |-> "omitted", enabled |-> FALSE]

NoText == <<"not called">>

\* The words formatDidYouMean alone is given as suggestions
Words == {"get", "put"}

RECURSIVE SuggestLists(_)
SuggestLists(n) ==
    IF n = 0 THEN {<<>>}
    ELSE SuggestLists(n - 1)
            \cup {Append(s, w) : s \in {t \in SuggestLists(n - 1) : Len(t) = n - 1},
                                 w \in Words}

Init ==
    /\ colorEnabled \in BOOLEAN
    /\ messages = <<>>
    /\ call = NoCall
    /\ stderr = <<>>
    /\ threw = FALSE
    /\ suggestArg = <<>>
    /\ didYouMean = NoText

\* the validator reports one more message
Report(m) ==
    /\ ~call.made
    /\ Len(messages) < MaxMessages
    /\ messages' = Append(messages, m)
    /\ UNCHANGED <<colorEnabled, call, stderr, threw, suggestArg, didYouMean>>

\* the caller prints what the validator reported, once per document
FormatMessages(opts) ==
    LET r == formatMessages(messages, opts, colorEnabled)
    IN  /\ ~call.made
        /\ call' = [made |-> TRUE, messages |-> messages,
                    maxMessages |-> opts.maxMessages, format |-> opts.format,
                    color |-> opts.color, enabled |-> colorEnabled]
        /\ colorEnabled' = r.enabled
        /\ messages' = r.caller
        /\ stderr' = r.stderr
        /\ threw' = r.threw
        /\ UNCHANGED <<suggestArg, didYouMean>>

\* the caller goes on to the next document, in the same process
NextDocument ==
    /\ call.made
    /\ messages' = <<>>
    /\ call' = NoCall
    /\ stderr' = <<>>
    /\ threw' = FALSE
    /\ UNCHANGED <<colorEnabled, suggestArg, didYouMean>>

Next ==
    \/ \E m \in Reported : Report(m)
    \/ \E opts \in Options : FormatMessages(opts)
    \/ NextDocument

Spec == Init /\ [][Next]_vars

\* the same program with a normalizer that fails on some locations
NextFail ==
    \/ \E m \in Reported \cup ReportedBad : Report(m)
    \/ \E opts \in Options : FormatMessages(opts)
    \/ NextDocument

SpecFail == Init /\ [][NextFail]_vars

\* formatDidYouMean alone
InitDidYouMean ==
    /\ colorEnabled = FALSE
    /\ messages = <<>>
    /\ call = NoCall
    /\ stderr = <<>>
    /\ threw = FALSE
    /\ suggestArg \in SuggestLists(MaxSuggest)
    /\ didYouMean = NoText

CallFormatDidYouMean ==
    /\ didYouMean = NoText
    /\ didYouMean' = formatDidYouMean(suggestArg)
    /\ UNCHANGED <<colorEnabled, messages, call, stderr, threw, suggestArg>>

NextDidYouMean == CallFormatDidYouMean

SpecDidYouMean == InitDidYouMean /\ [][NextDidYouMean]_vars

----------------------------------------------------------------------------
(* What the claims speak of, read off the call's arguments and its output *)

totalMessages == Len(call.messages)

ignoredMessages ==
    Cardinality({i \in 1..totalMessages : call.messages[i].ignored})

IsMessageWrite(e) == e.kind \in {"full", "short"}

\* the writes that render a message, in the order written
Rendered == SelectSeq(stderr, IsMessageWrite)

HiddenAt == {i \in 1..Len(stderr) : stderr[i].kind = "hidden"}

NoticeDue == totalMessages - ignoredMessages > call.maxMessages

\* the references left after filter, sort and slice, in order
Visible ==
    ArraySlice(ArraySort(ArrayFilter(ParamBinding(call.messages))),
               call.maxMessages).local

SeverityOf(ref) == call.messages[ref].severity

PrimaryFile(ref) == call.messages[ref].location[1].absoluteRef

\* the place of a reference in a sequence of references (0: not in it)
PlaceIn(refs, ref) ==
    IF \E i \in 1..Len(refs) : refs[i] = ref
    THEN CHOOSE i \in 1..Len(refs) : refs[i] = ref
    ELSE 0

\* the largest number of a non-empty finite set of numbers
Largest(S) == LET T == S IN CHOOSE m \in T : \A x \in T : x <= m

----------------------------------------------------------------------------
\* C1: with maxMessages > 0 the truncation notice is written iff
\* totalMessages - ignoredMessages > maxMessages; it is then the last write
\* of the call, hence written once and after every message, and the count it
\* reports is totalMessages - maxMessages.
C1_TruncationNotice ==
    (call.made /\ call.maxMessages > 0) =>
        /\ (HiddenAt # {}) <=> NoticeDue
        /\ \A i \in HiddenAt :
              /\ i = Len(stderr)
              /\ stderr[i].count = totalMessages - call.maxMessages

\* a call that hides messages and ignores some: the count of the notice is
\* larger than the number of messages that could have been shown
C1_Witness ==
    /\ call.made /\ call.maxMessages > 0 /\ ignoredMessages > 0
    /\ NoticeDue
    /\ Len(stderr) > 1
    /\ stderr[Len(stderr)].kind = "hidden"
    /\ stderr[Len(stderr)].count > totalMessages - ignoredMessages - Len(Rendered)

\* C2: with maxMessages > 0 the number of messages rendered is
\* min(maxMessages, totalMessages - ignoredMessages); the ignored messages
\* and those left by the filter add up to totalMessages; no ignored message
\* is rendered.
C2_RenderedCount ==
    (call.made /\ call.maxMessages > 0) =>
        /\ Len(Rendered) = Min(call.maxMessages, totalMessages - ignoredMessages)
        /\ ignoredMessages + Len(ArrayFilter(ParamBinding(call.messages)).local)
              = totalMessages
        /\ \A i \in 1..Len(Rendered) : ~call.messages[Rendered[i].ref].ignored

\* a call with ignored messages that is cut to maxMessages
C2_Witness ==
    /\ call.made /\ call.maxMessages > 0 /\ ignoredMessages > 0
    /\ Len(Rendered) = call.maxMessages
    /\ totalMessages - ignoredMessages > call.maxMessages

\* C3: among the visible messages no warn precedes an error and messages of
\* one severity keep their input order; an error that the truncation drops
\* leaves only errors rendered; in codeframe format the writes are the
\* visible messages in that order, numbered from 1.
C3_SeverityOrder ==
    call.made =>
        LET vis == Visible
            out == Rendered
        IN  /\ \A i, j \in 1..Len(vis) :
                  i < j =>
                     /\ ~(SeverityOf(vis[i]) = "warn"
                            /\ SeverityOf(vis[j]) = "error")
                     /\ SeverityOf(vis[i]) = SeverityOf(vis[j])
                            => vis[i] < vis[j]
            /\ \A r \in 1..totalMessages :
                  (/\ ~call.messages[r].ignored
                   /\ SeverityOf(r) = "error"
                   /\ PlaceIn(vis, r) = 0)
                      => \A i \in 1..Len(vis) : SeverityOf(vis[i]) = "error"
            /\ call.format = "codeframe" =>
                  /\ Len(out) = Len(vis)
                  /\ \A i \in 1..Len(out) :
                        /\ stderr[i] = out[i]
                        /\ out[i].ref = vis[i]
                        /\ out[i].text.index = i

\* codeframe, input warn, error, warn cut to two: the error is written
\* first as [1], then the first of the two warns as [2]
C3_Witness ==
    /\ call.made /\ call.format = "codeframe"
    /\ totalMessages = 3 /\ ignoredMessages = 0
    /\ SeverityOf(1) = "warn" /\ SeverityOf(2) = "error" /\ SeverityOf(3) = "warn"
    /\ Len(Rendered) = 2
    /\ Rendered[1].ref = 2 /\ Rendered[1].text.index = 1
    /\ Rendered[2].ref = 1 /\ Rendered[2].text.index = 2

\* C4: a call with an empty list writes nothing, in either format and for
\* any maxMessages.
C4_EmptyInput ==
    (call.made /\ totalMessages = 0) => stderr = <<>>

\* an empty list with a maxMessages below the number of messages
C4_Witness ==
    /\ call.made /\ totalMessages = 0
    /\ call.maxMessages < 0 /\ call.format = "stylish"
    /\ stderr = <<>>

----------------------------------------------------------------------------
(* Stylish output: blocks *)

FileAt == {i \in 1..Len(stderr) : stderr[i].kind = "file"}

ShortAt == {i \in 1..Len(stderr) : stderr[i].kind = "short"}

\* the header a write stands under: the last file write before it
HeaderOf(i) == Largest({h \in FileAt : h < i})

\* the visible messages whose primary location is in the file
GroupOf(file) ==
    LET vis == Visible
    IN  {r \in 1..totalMessages : PlaceIn(vis, r) > 0 /\ PrimaryFile(r) = file}

\* the length of "line:col" for a location
PositionLength(loc) == Len(ToString(loc.line)) + 1 + Len(ToString(loc.col))

\* the largest ruleId length in the file's group
GroupRuleIdPad(file) ==
    Largest({Len(call.messages[r].ruleId) : r \in GroupOf(file)})

\* the largest "line:col" length over all locations of the file's group
GroupLocationPad(file) ==
    Largest(UNION {{PositionLength(call.messages[r].location[k]) :
                        k \in 1..Len(call.messages[r].location)} :
                   r \in GroupOf(file)})

\* C5: in stylish format every rule-id field of a file's block is as wide as
\* the longest ruleId of the group and every position field is as wide as
\* the longest "line:col" over all locations of the group's messages plus
\* two; no rule id or position is longer than its field.
C5_UniformPadding ==
    (call.made /\ call.format = "stylish") =>
        \A i \in ShortAt :
            LET r == stderr[i].ref
                file == PrimaryFile(r)
            IN  /\ Len(stderr[i].text.ruleId) = GroupRuleIdPad(file)
                /\ Len(stderr[i].text.position) = GroupLocationPad(file) + 2
                /\ Len(call.messages[r].ruleId) <= Len(stderr[i].text.ruleId)
                /\ PositionLength(call.messages[r].location[1])
                      <= Len(stderr[i].text.position)

\* a line whose rule id was padded and whose position field is as wide as a
\* secondary location of another message of the file asks
C5_Witness ==
    /\ call.made /\ call.format = "stylish"
    /\ \E i \in ShortAt :
          LET m == call.messages[stderr[i].ref]
          IN  /\ Len(m.location) = 1
              /\ Len(stderr[i].text.ruleId) > Len(m.ruleId)
              /\ Len(stderr[i].text.position)
                    > PositionLength(m.location[1]) + 2
              /\ \E j \in ShortAt :
                    /\ j # i /\ HeaderOf(j) = HeaderOf(i)
                    /\ Len(call.messages[stderr[j].ref].location) > 1

\* C9: in stylish format every visible message is written once, under the
\* header of the file of its first location; a header is written once and is
\* followed by a message; an input that is all ignored writes nothing
\* (maxMessages is not negative, as the options require); the blocks come
\* in the order in which the files are first seen among the visible
\* messages; inside a block the messages keep the visible order, so no warn
\* precedes an error there.
C9_FileBlocks ==
    (call.made /\ call.format = "stylish") =>
        LET vis == Visible
            files == FileAt
            shorts == ShortAt
        IN  /\ \A p \in 1..Len(vis) :
                  Cardinality({i \in shorts : stderr[i].ref = vis[p]}) = 1
            /\ \A i \in shorts :
                  /\ PlaceIn(vis, stderr[i].ref) > 0
                  /\ \E h \in files : h < i
                  /\ stderr[HeaderOf(i)].file
                        = Relative(Cwd, PrimaryFile(stderr[i].ref))
            /\ \A h, g \in files : stderr[h].file = stderr[g].file => h = g
            /\ \A h \in files : h + 1 \in shorts
            /\ (call.maxMessages >= 0 /\ ignoredMessages = totalMessages)
                  => stderr = <<>>
            /\ \A i, j \in shorts :
                  (i < j /\ HeaderOf(i) # HeaderOf(j)) =>
                     \E p \in 1..Len(vis) :
                        /\ PrimaryFile(vis[p]) = PrimaryFile(stderr[i].ref)
                        /\ \A q \in 1..Len(vis) :
                              PrimaryFile(vis[q]) = PrimaryFile(stderr[j].ref)
                                 => p < q
            /\ \A i, j \in shorts :
                  (i < j /\ HeaderOf(i) = HeaderOf(j)) =>
                     /\ PlaceIn(vis, stderr[i].ref) < PlaceIn(vis, stderr[j].ref)
                     /\ ~(SeverityOf(stderr[i].ref) = "warn"
                            /\ SeverityOf(stderr[j].ref) = "error")

\* two blocks; the first holds two messages, one of them with a second
\* location in the file of the other block, and the input had them apart
C9_Witness ==
    /\ call.made /\ call.format = "stylish"
    /\ Cardinality(FileAt) = 2
    /\ \E i, j \in ShortAt :
          /\ i < j /\ HeaderOf(i) = HeaderOf(j)
          /\ stderr[j].ref > stderr[i].ref + 1
          /\ \E k \in {i, j} :
                LET m == call.messages[stderr[k].ref]
                IN  /\ Len(m.location) = 2
                    /\ m.location[2].absoluteRef # m.location[1].absoluteRef

\* C10: after a call the caller's array holds the same message objects in
\* the same order as when it was passed, and every object, its location list
\* included, is as it was.
C10_InputUntouched ==
    call.made => messages = call.messages

\* a stylish call that filtered, reordered and cut its list and resolved
\* locations, after which the caller's list is still warn, ignored, error
\* with unresolved locations
C10_Witness ==
    /\ call.made /\ call.format = "stylish" /\ call.maxMessages = 1
    /\ Len(messages) = 3
    /\ messages[1].severity = "warn" /\ ~messages[1].ignored
    /\ messages[2].ignored
    /\ messages[3].severity = "error" /\ ~messages[3].ignored
    /\ \A i \in 1..3 : \A k \in 1..Len(messages[i].location) :
          ~messages[i].location[k].resolved
    /\ Len(Rendered) = 1 /\ Rendered[1].ref = 3
    /\ HiddenAt # {}

----------------------------------------------------------------------------
\* C8: a call that gives color sets the process-wide flag to it, also when
\* the list is empty; a call that leaves color out leaves the flag as it
\* was; nothing else changes the flag, so it is never restored.  Hence after
\* any sequence of calls the flag is the color of the latest call that gave
\* one, or its initial value.
C8_ColorFlag ==
    [][IF call'.made /\ ~call.made
       THEN /\ call'.color = "true" => colorEnabled'
            /\ call'.color = "false" => ~colorEnabled'
            /\ call'.color = "omitted" => colorEnabled' = colorEnabled
       ELSE colorEnabled' = colorEnabled]_vars

\* a call with an empty list and color: true, made with the flag off, left
\* the flag on
C8_Witness ==
    /\ call.made /\ totalMessages = 0 /\ stderr = <<>>
    /\ call.color = "true" /\ ~call.enabled
    /\ colorEnabled

----------------------------------------------------------------------------
(* formatDidYouMean alone *)

IsWord(t) == t \in Words

IsBullet(t) == t \in {"Did you mean:\n  - ", "\n  - "}

\* C6: the block is empty for no suggestion, the one-line form for one, and
\* for k >= 2 a list of min(k, 5) bullets holding the first min(k, 5)
\* suggestions in their order; a suggestion beyond the fifth is not in it.
C6_DidYouMean ==
    didYouMean # NoText =>
        LET k == Len(suggestArg)
        IN  /\ k = 0 => didYouMean = <<>>
            /\ k = 1 => didYouMean = <<"Did you mean: ", suggestArg[1], " ?\n\n">>
            /\ k >= 2 =>
                  /\ Len(SelectSeq(didYouMean, IsBullet)) = Min(k, 5)
                  /\ SelectSeq(didYouMean, IsWord) = SubSeq(suggestArg, 1, Min(k, 5))
                  /\ Len(didYouMean) = 2 * Min(k, 5) + 1
                  /\ \A i \in 1..Min(k, 5) :
                        /\ IsBullet(didYouMean[2 * i - 1])
                        /\ didYouMean[2 * i] = suggestArg[i]
                  /\ didYouMean[Len(didYouMean)] = "\n\n"

\* seven suggestions were given, the sixth differs from the fifth, and the
\* block lists five
C6_Witness ==
    /\ didYouMean # NoText
    /\ Len(suggestArg) = 7
    /\ suggestArg[6] # suggestArg[5]
    /\ Len(SelectSeq(didYouMean, IsWord)) = 5

----------------------------------------------------------------------------
(* A normalizer that fails *)

\* whether rendering this message fails by itself
RenderFails(m) ==
    IF call.format = "codeframe" THEN FullFormatThrows(m) ELSE MapThrows(m)

\* C7: a message whose rendering fails does not stop the others: every
\* visible message whose own rendering does not fail is written, and the
\* truncation notice is written when due.
C7_FailureIsolated ==
    call.made =>
        LET vis == Visible
        IN  /\ \A p \in 1..Len(vis) :
                  ~RenderFails(call.messages[vis[p]])
                     => \E i \in 1..Len(stderr) :
                           IsMessageWrite(stderr[i]) /\ stderr[i].ref = vis[p]
            /\ (totalMessages > 0 /\ NoticeDue) => HiddenAt # {}

====
